---- MODULE Spec2Model ----
(***************************************************************************)
(* PackageRevisionPage (plugins/cad): the page that shows one package      *)
(* revision, offers its lifecycle transitions (Draft, Proposed, Published),*)
(* creates a RootSync for a published revision and polls its status.       *)
(*                                                                         *)
(* The page is one React component instance.  Its state cells (useState),  *)
(* the calls it has in flight against the backend, its pending poll timer  *)
(* and the props it is rendered with are the variables.  One action stands *)
(* for one event-loop task: a click handler up to its first await, the     *)
(* continuation after a backend response, a timer callback.  The render    *)
(* and the effects React runs after a state change are part of the task    *)
(* that changed the state.                                                 *)
(***************************************************************************)
EXTENDS Integers, Sequences, FiniteSets

VARIABLES
    mounted,                  \* the component instance is mounted
    mode,                     \* prop `mode`: "view" or "edit"
    loadState,                \* useAsync(loadPackageRevision): "loading", "ok", "error"
    load,                     \* the three fetches of the running loadPackageRevision
    repositorySummary,        \* useState<RepositorySummary>()
    packageRevision,          \* useState<PackageRevision>()
    resourcesMap,             \* useState<PackageRevisionResourcesMap>({})
    rootSync,                 \* useState<RootSync | null>()
    syncStatus,               \* useState<SyncStatus>()
    userInitiatedApiRequest,  \* useState<boolean>(false)
    ops,                      \* user-initiated operations awaiting a backend response
    listCalls,                \* listRootSyncs calls awaiting their response
    timer,                    \* the pending setTimeout of the refresh effect
    pollFetches,              \* getRootSync calls of refreshRootSync awaiting a response
    server,                   \* backend: the package revision and its resources
    last,                     \* the most recently finished user-initiated operation
    roleBinding,              \* getRoleBindingStructuredMetadata: its argument
    index,                    \* subjects its loop has gone through
    customMetadata,           \* its local customMetadata
    returnedMetadata          \* the Metadata it has returned

\* the page
pageVars == <<mounted, mode, loadState, load, repositorySummary, packageRevision,
              resourcesMap, rootSync, syncStatus, userInitiatedApiRequest, ops,
              listCalls, timer, pollFetches, server, last>>

\* one call of getRoleBindingStructuredMetadata
metadataVars == <<roleBinding, index, customMetadata, returnedMetadata>>

vars == <<pageVars, metadataVars>>

(***************************************************************************)
(* Bounds of the model.                                                    *)
(***************************************************************************)
\* the backend stops accepting writes of the revision at this resourceVersion
MaxResourceVersion == 2
\* distinct contents the resources map can take (besides the initial {})
MaxContents == 2
\* user-initiated operations the model lets be in flight at once
MaxOps == 2
\* getRootSync poll fetches the model lets be in flight at once
MaxPollFetches == 2
\* subjects of the role bindings given to getRoleBindingStructuredMetadata
MaxSubjects == 3

(***************************************************************************)
(* Values.                                                                 *)
(***************************************************************************)
Undefined == [tag |-> "undefined"]
Null == [tag |-> "null"]
Pending == [tag |-> "pending"]
NoTimer == [tag |-> "none"]

VIEW == "view"
EDIT == "edit"

DRAFT == "Draft"
PROPOSED == "Proposed"
PUBLISHED == "Published"
PackageRevisionLifecycle == {DRAFT, PROPOSED, PUBLISHED}

\* metadata.name of the package revision shown, as its parts
PackageName == <<"repo", ":", "pkg", ":", "v1">>

\* the repository's spec.git.secretRef.name, when it has one
RepoSecretName == <<"repo-auth">>

\* RootSync.status as the backend reports it; NoStatus is an absent field
NoStatus == "absent"
SyncStatusState == {"Synced", "Reconciling", "Pending", "Stalled", "Error"}
ReportedStatus == SyncStatusState \cup {"Unclassified"}

\* setTimeout delays of the refresh effect, in seconds
NoStatusRefreshSeconds == 1
StatusRefreshSeconds == 5

IsObject(v) == v.tag \notin {"undefined", "null"}

PackageRevisionOf(lifecycle, resourceVersion, eligible) ==
    [tag |-> "PackageRevision", name |-> PackageName, lifecycle |-> lifecycle,
     resourceVersion |-> resourceVersion, cloneOrDeploy |-> eligible]

RootSyncOf(name, status) ==
    [tag |-> "RootSync", name |-> name, status |-> status]

RepositorySummaryOf(deployment, downstream, secretRef) ==
    [tag |-> "RepositorySummary", deployment |-> deployment,
     downstreamRepositories |-> downstream, secretRef |-> secretRef]

ResourcesOf(content) == [tag |-> "PackageRevisionResources", content |-> content]

(***************************************************************************)
(* Pure functions of the page and of the utilities it imports.             *)
(***************************************************************************)
\* lodash cloneDeep: a structurally equal copy that shares nothing
cloneDeep(value) == value

\* every handler sets the lifecycle of approvePackage
withLifecycle_published(revision, lifecycle) ==
    [revision EXCEPT !.lifecycle = PUBLISHED]

\* targetPackageRevision.spec.lifecycle = <lifecycle> on the clone
withLifecycle(revision, lifecycle) == [revision EXCEPT !.lifecycle = lifecycle]

\* String.prototype.replaceAll on a name given as its parts
RECURSIVE replaceAll(_, _, _)
replaceAll(name, from, to) ==
    IF name = <<>> THEN <<>>
    ELSE <<IF Head(name) = from THEN to ELSE Head(name)>>
             \o replaceAll(Tail(name), from, to)

\* createSync: baseName and newSecretName
newSecretName(revision) == replaceAll(revision.name, ":", "-") \o <<"-sync">>

\* utils/configSync getRootSyncSecret: the sync secret, a copy of the
\* repository's secret under the new name
getRootSyncSecret(name, repoSecret) ==
    [tag |-> "Secret", name |-> name, data |-> repoSecret.data]

\* utils/configSync getRootSync: the RootSync resource that binds the
\* repository, the revision and the secret
getRootSync(repository, revision, secretName) ==
    [tag |-> "RootSync", name |-> replaceAll(revision.name, ":", "-"),
     status |-> NoStatus, secretRef |-> secretName,
     revision |-> revision.name]

\* utils/configSync getSyncStatus: the status projected to a SyncStatus
getSyncStatus(status) == [tag |-> "SyncStatus", state |-> status]

\* utils/repository isDeploymentRepository
isDeploymentRepository(repository) == repository.deployment

\* utils/packageRevision canCloneOrDeploy
canCloneOrDeploy(revision) == revision.cloneOrDeploy

\* names a RootSync matched by findRootSyncForPackage can carry
RootSyncNames == {replaceAll(PackageName, ":", "-"), <<"other-sync">>}

\* the two delays the wrong way round
refreshSeconds_swapped(sync) ==
    IF sync.status # NoStatus THEN NoStatusRefreshSeconds
    ELSE StatusRefreshSeconds

\* refreshSeconds of the refresh effect
refreshSeconds(sync) ==
    IF sync.status # NoStatus THEN StatusRefreshSeconds
    ELSE NoStatusRefreshSeconds

\* the refresh effect: its timer after a render with this rootSync
refreshTimeout(sync) ==
    IF IsObject(sync)
    THEN [tag |-> "timeout", name |-> sync.name, seconds |-> refreshSeconds(sync)]
    ELSE NoTimer

\* a status is derived from whatever the status field holds
derivedSyncStatus_unguarded(sync) ==
    IF IsObject(sync) THEN getSyncStatus(sync.status) ELSE Undefined

\* the syncStatus effect: the status derived after a render with this rootSync
derivedSyncStatus(sync) ==
    IF IsObject(sync) /\ sync.status # NoStatus
    THEN getSyncStatus(sync.status)
    ELSE Undefined

\* the default of the switch taken for a warning
getAlertSeverity_defaultWarning(thisSyncStatus) ==
    CASE thisSyncStatus.state \in {"Error", "Stalled"} -> "error"
      [] thisSyncStatus.state \in {"Reconciling", "Pending"} -> "info"
      [] thisSyncStatus.state = "Synced" -> "success"
      [] OTHER -> "warning"

\* getAlertSeverity of getCurrentSyncStatus: the switch on syncStatus.state
getAlertSeverity(thisSyncStatus) ==
    CASE thisSyncStatus.state \in {"Error", "Stalled"} -> "error"
      [] thisSyncStatus.state \in {"Reconciling", "Pending"} -> "info"
      [] thisSyncStatus.state = "Synced" -> "success"
      [] OTHER -> "error"

\* an empty fragment
Fragment == [tag |-> "Fragment"]

\* getCurrentSyncStatus: the Alert shown for the sync status, if any
getCurrentSyncStatus(thisSyncStatus, sync) ==
    IF thisSyncStatus # Undefined
    THEN [tag |-> "Alert", severity |-> getAlertSeverity(thisSyncStatus),
          text |-> thisSyncStatus.state]
    ELSE IF IsObject(sync)
         THEN [tag |-> "Alert", severity |-> "warning", text |-> "No Status"]
         ELSE Fragment

\* a control that ignores the flag
disabled_never(flag) == FALSE

\* disabled={userInitiatedApiRequest} of every control of renderOptions
disabled(flag) == flag

\* Propose is pushed for a Proposed revision as well
renderOptions_proposeTwice(m, revision, summary, sync) ==
    IF m = EDIT THEN <<"Cancel", "Save">>
    ELSE (IF revision.lifecycle # PUBLISHED THEN <<"LifecycleLabel">> ELSE <<>>)
         \o (IF revision.lifecycle = DRAFT THEN <<"Edit">> ELSE <<>>)
         \o (IF revision.lifecycle # PUBLISHED THEN <<"Propose">> ELSE <<>>)
         \o (IF revision.lifecycle = PROPOSED
             THEN <<"MoveToDraft", "Approve">> ELSE <<>>)
         \o (IF revision.lifecycle = PUBLISHED /\ summary.deployment
                 /\ sync # Undefined
             THEN IF IsObject(sync) THEN <<"SyncStatus">> ELSE <<"CreateSync">>
             ELSE <<>>)
         \o (IF summary.downstreamRepositories > 0 /\ revision.cloneOrDeploy
             THEN <<"Deploy">> ELSE <<>>)

\* renderOptions: the elements of the header, in order
renderOptions(m, revision, summary, sync) ==
    (IF m = EDIT THEN <<"Cancel", "Save">> ELSE <<>>)
    \o
    (IF m = VIEW
     THEN LET isDraft == revision.lifecycle = DRAFT
              isProposed == revision.lifecycle = PROPOSED
              isPublished == revision.lifecycle = PUBLISHED
              isDeployment == isDeploymentRepository(summary)
          IN  (IF isDraft \/ isProposed THEN <<"LifecycleLabel">> ELSE <<>>)
              \o (IF isDraft THEN <<"Edit", "Propose">> ELSE <<>>)
              \o (IF isProposed THEN <<"MoveToDraft", "Approve">> ELSE <<>>)
              \o (IF isPublished /\ isDeployment /\ sync # Undefined
                  THEN IF IsObject(sync) THEN <<"SyncStatus">>
                       ELSE <<"CreateSync">>
                  ELSE <<>>)
              \o (IF summary.downstreamRepositories > 0 /\ canCloneOrDeploy(revision)
                  THEN <<"Deploy">>
                  ELSE <<>>)
     ELSE <<>>)

Range(seq) == {seq[i] : i \in 1..Len(seq)}

Remove(seq, i) == SubSeq(seq, 1, i - 1) \o SubSeq(seq, i + 1, Len(seq))

(***************************************************************************)
(* What the page shows.                                                    *)
(***************************************************************************)
\* the page body is rendered: not loading, no load error, both values set
Rendered ==
    /\ mounted
    /\ loadState = "ok"
    /\ IsObject(repositorySummary)
    /\ IsObject(packageRevision)

Options ==
    IF Rendered
    THEN renderOptions(mode, packageRevision, repositorySummary, rootSync)
    ELSE <<>>

\* the element rendered for the "SyncStatus" entry of the header
SyncStatusBanner ==
    IF "SyncStatus" \in Range(Options)
    THEN getCurrentSyncStatus(syncStatus, rootSync)
    ELSE Fragment

\* the control is shown and can be clicked
Clickable(control) ==
    /\ control \in Range(Options)
    /\ ~disabled(userInitiatedApiRequest)

(***************************************************************************)
(* Initial state: the component has mounted and useAsync has started       *)
(* loadPackageRevision.                                                    *)
(***************************************************************************)
NoOp ==
    [kind |-> "none", outcome |-> "none", calls |-> <<>>,
     request |-> Undefined, response |-> Undefined, pkg |-> Undefined]

LoadStarted == [active |-> TRUE, repo |-> Pending, pkg |-> Pending, res |-> Pending]
LoadIdle == [active |-> FALSE, repo |-> Pending, pkg |-> Pending, res |-> Pending]

Servers ==
    [lifecycle : PackageRevisionLifecycle,
     resourceVersion : {0},
     cloneOrDeploy : BOOLEAN,
     resources : {1},
     repository : {RepositorySummaryOf(d, n, s) :
                      d \in BOOLEAN, n \in {0, 1}, s \in {<<>>, RepoSecretName}}]

Init ==
    /\ mounted = TRUE
    /\ mode \in {VIEW, EDIT}
    /\ loadState = "loading"
    /\ load = LoadStarted
    /\ repositorySummary = Undefined
    /\ packageRevision = Undefined
    /\ resourcesMap = 0
    /\ rootSync = Undefined
    /\ syncStatus = Undefined
    /\ userInitiatedApiRequest = FALSE
    /\ ops = <<>>
    /\ listCalls = <<>>
    /\ timer = NoTimer
    /\ pollFetches = <<>>
    /\ server \in Servers
    /\ last = NoOp
    /\ roleBinding = Undefined
    /\ index = 0
    /\ customMetadata = <<>>
    /\ returnedMetadata = Undefined

(***************************************************************************)
(* setRootSync and the two effects that depend on rootSync.  Every object  *)
(* passed is a fresh response, so the effects run again: the pending timer *)
(* is cleared and a new one is set, and syncStatus is derived again.       *)
(***************************************************************************)
setRootSync(sync) ==
    /\ rootSync' = sync
    /\ timer' = refreshTimeout(sync)
    /\ syncStatus' = derivedSyncStatus(sync)

\* the listRootSyncs call issued by the useAsync on [packageRevision, repositorySummary]
ListCall(revision, summary) ==
    [revision |-> revision.name, resourceVersion |-> revision.resourceVersion]

(***************************************************************************)
(* loadPackageRevision: three fetches, joined by Promise.all.              *)
(***************************************************************************)
FetchResponse(which) ==
    CASE which = "repo" -> server.repository
      [] which = "pkg" -> PackageRevisionOf(server.lifecycle, server.resourceVersion,
                                           server.cloneOrDeploy)
      [] which = "res" -> ResourcesOf(server.resources)

\* the continuation of loadPackageRevision after Promise.all, and the renders
\* that follow: batched is whether React renders once for the three setters
LoadCommit(done, batched) ==
    LET old == packageRevision
        earlier == ~batched /\ IsObject(old)
        calls1 == IF earlier /\ old.lifecycle = PUBLISHED
                  THEN Append(listCalls, ListCall(old, done.repo))
                  ELSE listCalls
        published == done.pkg.lifecycle = PUBLISHED
    IN  /\ repositorySummary' = done.repo
        /\ packageRevision' = done.pkg
        /\ resourcesMap' = done.res.content
        /\ loadState' = "ok"
        /\ listCalls' = IF published
                        THEN Append(calls1, ListCall(done.pkg, done.repo))
                        ELSE calls1
        /\ IF ~published \/ (earlier /\ old.lifecycle # PUBLISHED)
           THEN setRootSync(Undefined)
           ELSE UNCHANGED <<rootSync, timer, syncStatus>>

FetchReturns(which) ==
    /\ load.active
    /\ load[which] = Pending
    /\ LET done == [load EXCEPT ![which] = FetchResponse(which)]
       IN IF done.repo # Pending /\ done.pkg # Pending /\ done.res # Pending
          THEN /\ load' = LoadIdle
               /\ IF mounted
                  THEN \E batched \in BOOLEAN : LoadCommit(done, batched)
                  ELSE UNCHANGED <<repositorySummary, packageRevision, resourcesMap,
                                   loadState, listCalls, rootSync, timer, syncStatus>>
          ELSE /\ load' = done
               /\ UNCHANGED <<repositorySummary, packageRevision, resourcesMap,
                              loadState, listCalls, rootSync, timer, syncStatus>>
    /\ UNCHANGED <<mounted, mode, userInitiatedApiRequest, ops, pollFetches,
                   server, last>>
    /\ UNCHANGED metadataVars

\* the values that had arrived are stored although the load failed
FetchFails_partial(which) ==
    /\ load.active
    /\ load[which] = Pending
    /\ load' = LoadIdle
    /\ loadState' = IF mounted THEN "error" ELSE loadState
    /\ repositorySummary' = IF mounted /\ load.repo # Pending THEN load.repo
                            ELSE repositorySummary
    /\ packageRevision' = IF mounted /\ load.pkg # Pending THEN load.pkg
                          ELSE packageRevision
    /\ resourcesMap' = IF mounted /\ load.res # Pending THEN load.res.content
                       ELSE resourcesMap
    /\ UNCHANGED <<mounted, mode, rootSync, syncStatus, userInitiatedApiRequest,
                   ops, listCalls, timer, pollFetches, server, last>>
    /\ UNCHANGED metadataVars

FetchFails(which) ==
    /\ load.active
    /\ load[which] = Pending
    /\ load' = LoadIdle
    /\ loadState' = IF mounted THEN "error" ELSE loadState
    /\ UNCHANGED <<mounted, mode, repositorySummary, packageRevision, resourcesMap,
                   rootSync, syncStatus, userInitiatedApiRequest, ops, listCalls,
                   timer, pollFetches, server, last>>
    /\ UNCHANGED metadataVars

(***************************************************************************)
(* The useAsync on [packageRevision, repositorySummary]: the response of   *)
(* listRootSyncs and findRootSyncForPackage on it.                         *)
(***************************************************************************)
ListReturns(i, found) ==
    /\ i \in 1..Len(listCalls)
    /\ listCalls' = Remove(listCalls, i)
    /\ IF mounted
       THEN setRootSync(found)
       ELSE UNCHANGED <<rootSync, timer, syncStatus>>
    /\ UNCHANGED <<mounted, mode, loadState, load, repositorySummary,
                   packageRevision, resourcesMap, userInitiatedApiRequest, ops,
                   pollFetches, server, last>>
    /\ UNCHANGED metadataVars

ListFails(i) ==
    /\ i \in 1..Len(listCalls)
    /\ listCalls' = Remove(listCalls, i)
    /\ UNCHANGED <<mounted, mode, loadState, load, repositorySummary,
                   packageRevision, resourcesMap, rootSync, syncStatus,
                   userInitiatedApiRequest, ops, timer, pollFetches, server, last>>
    /\ UNCHANGED metadataVars

(***************************************************************************)
(* The refresh effect: the timer callback and refreshRootSync.             *)
(***************************************************************************)
TimerFires ==
    /\ timer # NoTimer
    /\ Len(pollFetches) < MaxPollFetches
    /\ pollFetches' = Append(pollFetches, [name |-> timer.name])
    /\ timer' = NoTimer
    /\ UNCHANGED <<mounted, mode, loadState, load, repositorySummary,
                   packageRevision, resourcesMap, rootSync, syncStatus,
                   userInitiatedApiRequest, ops, listCalls, server, last>>
    /\ UNCHANGED metadataVars

PollReturns(i, status) ==
    /\ i \in 1..Len(pollFetches)
    /\ pollFetches' = Remove(pollFetches, i)
    /\ IF mounted
       THEN setRootSync(RootSyncOf(pollFetches[i].name, status))
       ELSE UNCHANGED <<rootSync, timer, syncStatus>>
    /\ UNCHANGED <<mounted, mode, loadState, load, repositorySummary,
                   packageRevision, resourcesMap, userInitiatedApiRequest, ops,
                   listCalls, server, last>>
    /\ UNCHANGED metadataVars

PollFails(i) ==
    /\ i \in 1..Len(pollFetches)
    /\ pollFetches' = Remove(pollFetches, i)
    /\ UNCHANGED <<mounted, mode, loadState, load, repositorySummary,
                   packageRevision, resourcesMap, rootSync, syncStatus,
                   userInitiatedApiRequest, ops, listCalls, timer, server, last>>
    /\ UNCHANGED metadataVars

\* the component unmounts: the cleanup of the refresh effect clears the timer
Unmount ==
    /\ mounted
    /\ mounted' = FALSE
    /\ timer' = NoTimer
    /\ UNCHANGED <<mode, loadState, load, repositorySummary, packageRevision,
                   resourcesMap, rootSync, syncStatus, userInitiatedApiRequest,
                   ops, listCalls, pollFetches, server, last>>
    /\ UNCHANGED metadataVars

(***************************************************************************)
(* User-initiated operations.  An operation in flight keeps the values its *)
(* handler closed over (packageRevision, repositorySummary, resourcesMap   *)
(* of the render that was clicked), the backend call it awaits (pc), the   *)
(* request of that call and the calls it has issued so far.                *)
(***************************************************************************)
OpOf(kind, pc, request) ==
    [kind |-> kind, pc |-> pc, pkg |-> packageRevision,
     repo |-> repositorySummary, request |-> request, calls |-> <<pc>>]

\* the operation leaves flight: what is remembered of it
Finished(op, outcome, response) ==
    [kind |-> op.kind, outcome |-> outcome, calls |-> op.calls,
     request |-> op.request, response |-> response, pkg |-> op.pkg]

\* the lookup is made whatever the lifecycle
AfterSetPackageRevision_unguarded(revision) ==
    /\ listCalls' = Append(listCalls, ListCall(revision, repositorySummary))
    /\ UNCHANGED <<rootSync, timer, syncStatus>>

\* the useAsync on [packageRevision, repositorySummary] after setPackageRevision
AfterSetPackageRevision(revision) ==
    IF revision.lifecycle = PUBLISHED
    THEN /\ listCalls' = Append(listCalls, ListCall(revision, repositorySummary))
         /\ UNCHANGED <<rootSync, timer, syncStatus>>
    ELSE /\ listCalls' = listCalls
         /\ setRootSync(Undefined)

\* the backend call a lifecycle transition makes
TransitionCall(kind) ==
    IF kind = "approvePackage" THEN "approvePackageRevision"
    ELSE "replacePackageRevision"

\* no clone: the handler sets the lifecycle on the object held in state
heldAfterEdit_aliased(held, target) == target

\* the object held in the packageRevision state cell once the handler has set
\* the lifecycle of its clone: the clone shares nothing with it
heldAfterEdit(held, target) == held

\* moveToDraft, moveToProposed, approvePackage up to the await
StartTransition(kind, lifecycle) ==
    /\ Len(ops) < MaxOps
    /\ userInitiatedApiRequest' = TRUE
    /\ LET target == withLifecycle(cloneDeep(packageRevision), lifecycle)
       IN /\ packageRevision' = heldAfterEdit(packageRevision, target)
          /\ ops' = Append(ops, OpOf(kind, TransitionCall(kind), target))
    /\ UNCHANGED <<mounted, mode, loadState, load, repositorySummary,
                   resourcesMap, rootSync, syncStatus, listCalls,
                   timer, pollFetches, server, last>>

moveToDraft ==
    /\ Clickable("MoveToDraft")
    /\ StartTransition("moveToDraft", DRAFT)
    /\ UNCHANGED metadataVars

moveToProposed ==
    /\ Clickable("Propose")
    /\ StartTransition("moveToProposed", PROPOSED)
    /\ UNCHANGED metadataVars

approvePackage ==
    /\ Clickable("Approve")
    /\ StartTransition("approvePackage", PUBLISHED)
    /\ UNCHANGED metadataVars

Transitions == {"moveToDraft", "moveToProposed", "approvePackage"}

\* the page keeps the copy it submitted
setPackageRevisionAfter_submitted(request, response) == request

\* the local packageRevision after the awaited call of a transition returned
setPackageRevisionAfter(request, response) == response

\* the backend accepts the replace: the rest of the try block, then finally
TransitionReturns(i) ==
    /\ i \in 1..Len(ops)
    /\ ops[i].kind \in Transitions
    /\ server.resourceVersion < MaxResourceVersion
    /\ LET op == ops[i]
           response == [op.request EXCEPT
                           !.resourceVersion = server.resourceVersion + 1]
       IN /\ server' = [server EXCEPT !.lifecycle = op.request.lifecycle,
                                      !.resourceVersion = @ + 1]
          /\ ops' = Remove(ops, i)
          /\ last' = Finished(op, "ok", response)
          /\ IF mounted
             THEN /\ packageRevision' = setPackageRevisionAfter(op.request, response)
                  /\ AfterSetPackageRevision(packageRevision')
                  /\ userInitiatedApiRequest' = FALSE
             ELSE UNCHANGED <<packageRevision, listCalls, rootSync, timer,
                              syncStatus, userInitiatedApiRequest>>
    /\ UNCHANGED <<mounted, mode, loadState, load, repositorySummary,
                   resourcesMap, pollFetches>>
    /\ UNCHANGED metadataVars

\* no finally block: the reset is skipped when the call throws
flagAfterFailure_kept(flag) == flag

\* the flag after the finally block of an operation whose call failed
flagAfterFailure(flag) == FALSE

\* the error is caught and the operation stays in flight
inFlightAfterFailure_swallowed(operations, i) == operations

\* the operations in flight after the awaited call of operation i threw:
\* the throw leaves the try block, no later step of the operation runs
inFlightAfterFailure(operations, i) == Remove(operations, i)

\* the awaited call of any operation fails: only the finally block runs
OpFails(i) ==
    /\ i \in 1..Len(ops)
    /\ ops' = inFlightAfterFailure(ops, i)
    /\ last' = Finished(ops[i], "failed", Undefined)
    /\ userInitiatedApiRequest' =
          IF mounted THEN flagAfterFailure(userInitiatedApiRequest)
          ELSE userInitiatedApiRequest
    /\ UNCHANGED <<mounted, mode, loadState, load, repositorySummary,
                   packageRevision, resourcesMap, rootSync, syncStatus, listCalls,
                   timer, pollFetches, server>>
    /\ UNCHANGED metadataVars

(***************************************************************************)
(* createSync.                                                             *)
(***************************************************************************)
\* the check of the secret reference is missing
hasRepoSecret_unchecked(summary) == TRUE

\* repositorySummary.repository.spec.git?.secretRef?.name is set
hasRepoSecret(summary) == summary.secretRef # <<>>

createSync ==
    /\ Clickable("CreateSync")
    /\ Len(ops) < MaxOps
    /\ IF hasRepoSecret(repositorySummary)
       THEN /\ userInitiatedApiRequest' = TRUE
            /\ ops' = Append(ops, OpOf("createSync", "getSecret",
                                       repositorySummary.secretRef))
            /\ last' = last
       ELSE /\ userInitiatedApiRequest' = FALSE
            /\ ops' = ops
            /\ last' = [kind |-> "createSync", outcome |-> "skipped",
                        calls |-> <<>>, request |-> Undefined,
                        response |-> Undefined, pkg |-> packageRevision]
    /\ UNCHANGED <<mounted, mode, loadState, load, repositorySummary,
                   packageRevision, resourcesMap, rootSync, syncStatus, listCalls,
                   timer, pollFetches, server>>
    /\ UNCHANGED metadataVars

\* the RootSync is bound to the repository's own secret
syncSecretRef_repository(createdSyncSecret, repoSecretName) == repoSecretName

\* the secret named in the RootSync that createSync builds
syncSecretRef(createdSyncSecret, repoSecretName) == createdSyncSecret.name

\* getSecret returned: build the sync secret and call createSecret
GetSecretReturns(i) ==
    /\ i \in 1..Len(ops)
    /\ ops[i].kind = "createSync" /\ ops[i].pc = "getSecret"
    /\ LET op == ops[i]
           repoSecret == [tag |-> "Secret", name |-> op.request,
                          data |-> "credentials"]
           syncSecret == getRootSyncSecret(newSecretName(op.pkg), repoSecret)
       IN ops' = [ops EXCEPT ![i] = [op EXCEPT !.pc = "createSecret",
                                               !.request = syncSecret,
                                               !.calls = Append(@, "createSecret")]]
    /\ UNCHANGED <<mounted, mode, loadState, load, repositorySummary,
                   packageRevision, resourcesMap, rootSync, syncStatus,
                   userInitiatedApiRequest, listCalls, timer, pollFetches,
                   server, last>>
    /\ UNCHANGED metadataVars

\* createSecret returned: build the RootSync and call createRootSync
CreateSecretReturns(i) ==
    /\ i \in 1..Len(ops)
    /\ ops[i].kind = "createSync" /\ ops[i].pc = "createSecret"
    /\ LET op == ops[i]
           createdSyncSecret == op.request
           rootSyncResource ==
               getRootSync(op.repo, op.pkg,
                           syncSecretRef(createdSyncSecret, op.repo.secretRef))
       IN ops' = [ops EXCEPT ![i] = [op EXCEPT !.pc = "createRootSync",
                                               !.request = rootSyncResource,
                                               !.calls = Append(@, "createRootSync")]]
    /\ UNCHANGED <<mounted, mode, loadState, load, repositorySummary,
                   packageRevision, resourcesMap, rootSync, syncStatus,
                   userInitiatedApiRequest, listCalls, timer, pollFetches,
                   server, last>>
    /\ UNCHANGED metadataVars

\* createRootSync returned: adopt the created resource, then finally
CreateRootSyncReturns(i, status) ==
    /\ i \in 1..Len(ops)
    /\ ops[i].kind = "createSync" /\ ops[i].pc = "createRootSync"
    /\ LET op == ops[i]
           newRootSync == RootSyncOf(op.request.name, status)
       IN /\ ops' = Remove(ops, i)
          /\ last' = Finished(op, "ok", newRootSync)
          /\ IF mounted
             THEN /\ setRootSync(newRootSync)
                  /\ userInitiatedApiRequest' = FALSE
             ELSE UNCHANGED <<rootSync, timer, syncStatus, userInitiatedApiRequest>>
    /\ UNCHANGED <<mounted, mode, loadState, load, repositorySummary,
                   packageRevision, resourcesMap, listCalls, pollFetches, server>>
    /\ UNCHANGED metadataVars

(***************************************************************************)
(* Edit mode: the resources table, savePackageRevision and the links that  *)
(* change the route of the page.                                           *)
(***************************************************************************)
\* the route changed to the other mode of the same page: useAsync runs
\* loadPackageRevision again because `mode` is one of its dependencies
Navigate(to) ==
    IF mounted /\ mode # to
    THEN /\ mode' = to
         /\ loadState' = "loading"
         /\ load' = LoadStarted
    ELSE UNCHANGED <<mode, loadState, load>>

\* getPackageRevisionResourcesResource(packageName, resourcesMap)
getPackageRevisionResourcesResource(resources) == ResourcesOf(resources)

handleUpdatedResourcesMap ==
    /\ Rendered
    /\ mode = EDIT
    /\ \E latestResources \in (1..MaxContents) \ {resourcesMap} :
          resourcesMap' = latestResources
    /\ UNCHANGED <<mounted, mode, loadState, load, repositorySummary,
                   packageRevision, rootSync, syncStatus, userInitiatedApiRequest,
                   ops, listCalls, timer, pollFetches, server, last>>
    /\ UNCHANGED metadataVars

savePackageRevision ==
    /\ Clickable("Save")
    /\ Len(ops) < MaxOps
    /\ userInitiatedApiRequest' = TRUE
    /\ ops' = Append(ops, OpOf("savePackageRevision",
                               "replacePackageRevisionResources",
                               getPackageRevisionResourcesResource(resourcesMap)))
    /\ UNCHANGED <<mounted, mode, loadState, load, repositorySummary,
                   packageRevision, resourcesMap, rootSync, syncStatus, listCalls,
                   timer, pollFetches, server, last>>
    /\ UNCHANGED metadataVars

\* replacePackageRevisionResources returned: navigate to the view page, then finally
SaveReturns(i) ==
    /\ i \in 1..Len(ops)
    /\ ops[i].kind = "savePackageRevision"
    /\ server' = [server EXCEPT !.resources = ops[i].request.content]
    /\ ops' = Remove(ops, i)
    /\ last' = Finished(ops[i], "ok", Undefined)
    /\ Navigate(VIEW)
    /\ userInitiatedApiRequest' = IF mounted THEN FALSE ELSE userInitiatedApiRequest
    /\ UNCHANGED <<mounted, repositorySummary, packageRevision, resourcesMap,
                   rootSync, syncStatus, listCalls, timer, pollFetches>>
    /\ UNCHANGED metadataVars

\* the Edit link of the view page
EditLink ==
    /\ Clickable("Edit")
    /\ Navigate(EDIT)
    /\ UNCHANGED <<mounted, repositorySummary, packageRevision, resourcesMap,
                   rootSync, syncStatus, userInitiatedApiRequest, ops, listCalls,
                   timer, pollFetches, server, last>>
    /\ UNCHANGED metadataVars

\* the Cancel link of the edit page
CancelLink ==
    /\ Clickable("Cancel")
    /\ Navigate(VIEW)
    /\ UNCHANGED <<mounted, repositorySummary, packageRevision, resourcesMap,
                   rootSync, syncStatus, userInitiatedApiRequest, ops, listCalls,
                   timer, pollFetches, server, last>>
    /\ UNCHANGED metadataVars

ReportedOrNoStatus == ReportedStatus \cup {NoStatus}

\* a task of the backend: a response or a failure of a call in flight
LoadResponse ==
    \E which \in {"repo", "pkg", "res"} : FetchReturns(which) \/ FetchFails(which)

ListResponse ==
    \E i \in 1..Len(listCalls) :
        \/ ListReturns(i, Null)
        \/ \E name \in RootSyncNames, status \in ReportedOrNoStatus :
              ListReturns(i, RootSyncOf(name, status))
        \/ ListFails(i)

PollResponse ==
    \E i \in 1..Len(pollFetches) :
        \/ \E status \in ReportedOrNoStatus : PollReturns(i, status)
        \/ PollFails(i)

OpResponse ==
    \E i \in 1..Len(ops) :
        \/ TransitionReturns(i)
        \/ GetSecretReturns(i)
        \/ CreateSecretReturns(i)
        \/ \E status \in ReportedOrNoStatus : CreateRootSyncReturns(i, status)
        \/ SaveReturns(i)
        \/ OpFails(i)

UserAction ==
    \/ moveToDraft
    \/ moveToProposed
    \/ approvePackage
    \/ createSync
    \/ savePackageRevision
    \/ handleUpdatedResourcesMap
    \/ EditLink
    \/ CancelLink

\* the tasks of the page; no role binding is rendered meanwhile
Next ==
    \/ LoadResponse
    \/ ListResponse
    \/ TimerFires
    \/ PollResponse
    \/ OpResponse
    \/ UserAction
    \/ Unmount

Spec == Init /\ [][Next]_vars

\* every backend call of a user-initiated operation eventually returns or
\* fails; the revisions taken are those with a Deploy link, which starts no
\* backend operation
FairInit ==
    /\ Init
    /\ server.cloneOrDeploy
    /\ server.repository.downstreamRepositories > 0

FairSpec == FairInit /\ [][Next]_vars /\ WF_vars(OpResponse)

(***************************************************************************)
(* getRoleBindingStructuredMetadata: the metadata shown for a RoleBinding. *)
(* Strings are the sequences of the parts a template literal joins.        *)
(***************************************************************************)
RoleRefKinds == {"Role", "ClusterRole"}
RoleRefNames == {"view", "edit"}
SubjectKinds == {"User", "Group", "ServiceAccount"}
SubjectNames == {"alice", "bob"}

Subjects == [kind : SubjectKinds, name : SubjectNames]

\* the role bindings given to the function
RoleBindings ==
    [roleRef : [kind : RoleRefKinds, name : RoleRefNames],
     subjects : UNION {[1..n -> Subjects] : n \in 0..MaxSubjects}]

\* a number in a template literal: its decimal digits
RECURSIVE numberToString(_)
numberToString(n) ==
    LET digit == <<"0", "1", "2", "3", "4", "5", "6", "7", "8", "9">>[(n % 10) + 1]
    IN  IF n < 10 THEN <<digit>> ELSE numberToString(n \div 10) \o <<digit>>

\* every subject gets the name of a single subject
roleBindingName_unnumbered(subjects, i) == <<"Role Binding">>

\* `name` of the loop body, for the subject at (0-based) index i
roleBindingName(subjects, i) ==
    IF Len(subjects) > 1
    THEN <<"Role Binding ">> \o numberToString(i + 1)
    ELSE <<"Role Binding">>

\* `${x.kind}: ${x.name}`
kindAndName(x) == <<x.kind, ": ", x.name>>

\* object[name] = value: an own property keeps its place, a new one goes last
setProperty(object, name, value) ==
    IF \E k \in 1..Len(object) : object[k].name = name
    THEN [k \in 1..Len(object) |->
             IF object[k].name = name THEN [name |-> name, value |-> value]
             ELSE object[k]]
    ELSE Append(object, [name |-> name, value |-> value])

\* one turn of the for-of loop over roleBinding.subjects.entries()
RoleBindingLoop ==
    /\ returnedMetadata = Undefined
    /\ index < Len(roleBinding.subjects)
    /\ LET subject == roleBinding.subjects[index + 1]
           name == roleBindingName(roleBinding.subjects, index)
       IN customMetadata' =
              setProperty(customMetadata, name,
                          <<kindAndName(roleBinding.roleRef), kindAndName(subject)>>)
    /\ index' = index + 1
    /\ UNCHANGED <<roleBinding, returnedMetadata>>
    /\ UNCHANGED pageVars

\* return customMetadata
RoleBindingReturn ==
    /\ returnedMetadata = Undefined
    /\ index = Len(roleBinding.subjects)
    /\ returnedMetadata' = [tag |-> "Metadata", entries |-> customMetadata]
    /\ UNCHANGED <<roleBinding, index, customMetadata>>
    /\ UNCHANGED pageVars

\* the function is called with a role binding; no page is mounted
MetadataInit ==
    /\ roleBinding \in RoleBindings
    /\ index = 0
    /\ customMetadata = <<>>
    /\ returnedMetadata = Undefined
    /\ mounted = FALSE
    /\ mode = VIEW
    /\ loadState = "loading"
    /\ load = LoadIdle
    /\ repositorySummary = Undefined
    /\ packageRevision = Undefined
    /\ resourcesMap = 0
    /\ rootSync = Undefined
    /\ syncStatus = Undefined
    /\ userInitiatedApiRequest = FALSE
    /\ ops = <<>>
    /\ listCalls = <<>>
    /\ timer = NoTimer
    /\ pollFetches = <<>>
    /\ server = CHOOSE s \in Servers : TRUE
    /\ last = NoOp

MetadataNext ==
    \/ RoleBindingLoop
    \/ RoleBindingReturn

MetadataSpec == MetadataInit /\ [][MetadataNext]_vars

(***************************************************************************)
(* Properties.                                                             *)
(***************************************************************************)
\* controls of renderOptions whose handler starts a backend operation
OperationControls == {"MoveToDraft", "Propose", "Approve", "CreateSync", "Save"}

\* C1: at most one user-initiated operation is in flight; an operation in
\* flight has set userInitiatedApiRequest, and while the flag is set no
\* control that starts an operation can be clicked.
C1_OneOperationInFlight ==
    /\ Len(ops) <= 1
    /\ (ops # <<>> => userInitiatedApiRequest)
    /\ (userInitiatedApiRequest =>
           \A control \in OperationControls : ~Clickable(control))

\* an operation is in flight and its control is shown, disabled
C1_Witness ==
    /\ Len(ops) = 1
    /\ ops[1].kind = "moveToProposed"
    /\ userInitiatedApiRequest
    /\ "Propose" \in Range(Options)

\* C2: with every backend call eventually answered, a set flag is eventually
\* reset on the mounted page (an unmounted component has no state left to
\* reset), and the flag is never set while no operation is in flight.
C2_FlagReleased ==
    /\ [](ops = <<>> /\ mounted => ~userInitiatedApiRequest)
    /\ (userInitiatedApiRequest ~> (~userInitiatedApiRequest \/ ~mounted))

\* an operation has failed and the controls are enabled again
C2_Witness ==
    /\ mounted
    /\ last.outcome = "failed"
    /\ ops = <<>>
    /\ ~userInitiatedApiRequest
    /\ \E control \in OperationControls : Clickable(control)

\* C3: when the call of a lifecycle transition fails on the mounted page, the
\* packageRevision held afterwards is the one held when the action started
\* and the flag is reset.
C3_FailedTransitionLeavesRevision ==
    [][\A i \in 1..Len(ops) :
          (mounted /\ ops[i].kind \in Transitions /\ OpFails(i)) =>
              /\ packageRevision' = ops[i].pkg
              /\ ~userInitiatedApiRequest']_vars

\* a transition has failed and the revision held is the one it started from
C3_Witness ==
    /\ mounted
    /\ last.kind \in Transitions
    /\ last.outcome = "failed"
    /\ last.request.lifecycle # last.pkg.lifecycle
    /\ packageRevision = last.pkg
    /\ ~userInitiatedApiRequest

\* the lifecycle each transition asks for
TargetLifecycle(kind) ==
    CASE kind = "moveToDraft" -> DRAFT
      [] kind = "moveToProposed" -> PROPOSED
      [] kind = "approvePackage" -> PUBLISHED

\* C4: a transition that succeeds on the mounted page has issued exactly one
\* request, the packageRevision held with only the lifecycle set to the
\* target of the transition, and afterwards the page holds the resource the
\* backend returned, which is not the copy submitted.
C4_TransitionReplacesWithResponse ==
    [][\A i \in 1..Len(ops) :
          (mounted /\ ops[i].kind \in Transitions /\ TransitionReturns(i)) =>
              /\ ops[i].calls = <<TransitionCall(ops[i].kind)>>
              /\ ops[i].request =
                    [packageRevision EXCEPT !.lifecycle = TargetLifecycle(ops[i].kind)]
              /\ packageRevision' = last'.response
              /\ packageRevision' =
                    PackageRevisionOf(server'.lifecycle, server'.resourceVersion,
                                      server'.cloneOrDeploy)
              /\ packageRevision' # ops[i].request]_vars

\* a transition has succeeded and the page holds the backend's response
C4_Witness ==
    /\ mounted
    /\ last.kind = "approvePackage"
    /\ last.outcome = "ok"
    /\ last.request = [last.pkg EXCEPT !.lifecycle = PUBLISHED]
    /\ packageRevision = last.response
    /\ packageRevision.resourceVersion = last.request.resourceVersion + 1

IsAction(element) == element # "LifecycleLabel"

\* the controls and the sync status renderOptions offers, in order
Offered == SelectSeq(Options, IsAction)

\* the table of actions as section 4.1 states it
TableOf(revision, summary, sync) ==
    (CASE revision.lifecycle = DRAFT -> <<"Edit", "Propose">>
       [] revision.lifecycle = PROPOSED -> <<"MoveToDraft", "Approve">>
       [] revision.lifecycle = PUBLISHED ->
             IF IsObject(sync) THEN <<"SyncStatus">>
             ELSE IF summary.deployment /\ sync = Null THEN <<"CreateSync">>
             ELSE <<>>)
    \o (IF /\ revision.lifecycle \in {DRAFT, PROPOSED}
           /\ summary.downstreamRepositories > 0
           /\ revision.cloneOrDeploy
        THEN <<"Deploy">> ELSE <<>>)

\* C5 as stated: in view mode the actions offered are those of the table of
\* section 4.1, with the sync status shown iff a sync exists and Deploy
\* offered iff the revision is Draft or Proposed, has a downstream
\* repository and is clone/deploy eligible.
C5_TableAsStated ==
    Rendered /\ mode = VIEW =>
        Offered = TableOf(packageRevision, repositorySummary, rootSync)

\* the table the page implements: the sync status needs a deployment
\* repository, Deploy does not depend on the lifecycle
TableAmended(revision, summary, sync) ==
    (CASE revision.lifecycle = DRAFT -> <<"Edit", "Propose">>
       [] revision.lifecycle = PROPOSED -> <<"MoveToDraft", "Approve">>
       [] revision.lifecycle = PUBLISHED ->
             IF summary.deployment /\ IsObject(sync) THEN <<"SyncStatus">>
             ELSE IF summary.deployment /\ sync = Null THEN <<"CreateSync">>
             ELSE <<>>)
    \o (IF summary.downstreamRepositories > 0 /\ revision.cloneOrDeploy
        THEN <<"Deploy">> ELSE <<>>)

\* C5 as amended: in view mode Draft offers Edit then Propose, Proposed
\* offers Move-to-Draft then Approve, Published offers Create-Sync iff the
\* repository is a deployment repository and the lookup resolved to no sync,
\* or the sync status iff the repository is a deployment repository and a
\* sync is tracked; Deploy comes last and is offered, whatever the lifecycle,
\* iff there is a downstream repository and the revision is eligible.
C5_TableAmended ==
    Rendered /\ mode = VIEW =>
        Offered = TableAmended(packageRevision, repositorySummary, rootSync)

\* a Published revision with a tracked sync is offered its status, then Deploy
C5_Witness ==
    /\ Rendered /\ mode = VIEW
    /\ packageRevision.lifecycle = PUBLISHED
    /\ IsObject(rootSync)
    /\ Offered = <<"SyncStatus", "Deploy">>

\* the state in which the Create Sync control is meant to be available
CreateSyncState ==
    /\ IsObject(packageRevision) /\ packageRevision.lifecycle = PUBLISHED
    /\ IsObject(repositorySummary) /\ repositorySummary.deployment
    /\ rootSync = Null

\* C6: createSync starts only when the revision held is Published, the
\* repository is a deployment repository and rootSync is null, and
\* createSecret and createRootSync are issued in no other state.
C6_CreateCallsOnlyWithoutSync ==
    [][/\ (createSync => CreateSyncState)
       /\ \A i \in 1..Len(ops) :
             (GetSecretReturns(i) \/ CreateSecretReturns(i)) => CreateSyncState]_vars

\* C7: createSync for a repository without a secret reference issues no
\* backend call, raises no error, leaves rootSync as it is and leaves the
\* flag reset.
C7_NoSecretNoCalls ==
    [][(createSync /\ repositorySummary.secretRef = <<>>) =>
          /\ ops' = ops
          /\ last'.kind = "createSync"
          /\ last'.outcome = "skipped"
          /\ last'.calls = <<>>
          /\ rootSync' = rootSync
          /\ timer' = timer
          /\ ~userInitiatedApiRequest']_vars

\* createSync has run for a repository without a secret reference
C7_Witness ==
    /\ mounted
    /\ last.kind = "createSync"
    /\ last.outcome = "skipped"
    /\ repositorySummary.secretRef = <<>>
    /\ rootSync = Null
    /\ ops = <<>>
    /\ ~userInitiatedApiRequest

\* the backend calls of createSync, in order
CreateSyncCalls == <<"getSecret", "createSecret", "createRootSync">>

IsPrefix(short, long) ==
    /\ Len(short) <= Len(long)
    /\ short = SubSeq(long, 1, Len(short))

\* C8: when getSecret, createSecret or createRootSync fails on the mounted
\* page, createSync ends with that failure as its outcome, the failed call
\* is the last one it issued, the operation is no longer in flight, rootSync
\* is left as it is and the flag is reset.
C8_CreateSyncFailurePropagates ==
    [][\A i \in 1..Len(ops) :
          (mounted /\ ops[i].kind = "createSync" /\ OpFails(i)) =>
              /\ last'.kind = "createSync"
              /\ last'.outcome = "failed"
              /\ last'.calls = ops[i].calls
              /\ last'.calls[Len(last'.calls)] = ops[i].pc
              /\ \A j \in 1..Len(ops') : ops'[j].kind # "createSync"
              /\ rootSync' = rootSync
              /\ ~userInitiatedApiRequest']_vars

\* createSecret has failed: createRootSync was never issued
C8_Witness ==
    /\ mounted
    /\ last.kind = "createSync"
    /\ last.outcome = "failed"
    /\ last.calls = <<"getSecret", "createSecret">>
    /\ rootSync = Null
    /\ ops = <<>>
    /\ ~userInitiatedApiRequest

\* C9: createSync issues getSecret, createSecret and createRootSync in this
\* order, each after the one before has returned; the RootSync it submits
\* names the secret createSecret returned; and rootSync changes under a
\* step of createSync only when createRootSync has returned, to the
\* resource returned.
C9_CreateSyncInOrder ==
    /\ [](\A i \in 1..Len(ops) :
             ops[i].kind = "createSync" =>
                 /\ IsPrefix(ops[i].calls, CreateSyncCalls)
                 /\ ops[i].calls[Len(ops[i].calls)] = ops[i].pc
                 /\ (ops[i].pc = "createRootSync" =>
                        ops[i].request =
                            getRootSync(ops[i].repo, ops[i].pkg,
                                        newSecretName(ops[i].pkg))))
    /\ [][\A i \in 1..Len(ops) :
             /\ (GetSecretReturns(i) \/ CreateSecretReturns(i)) =>
                    rootSync' = rootSync
             /\ (mounted /\ (\E status \in ReportedOrNoStatus :
                                CreateRootSyncReturns(i, status))) =>
                    /\ ops[i].calls = CreateSyncCalls
                    /\ rootSync' = last'.response
                    /\ rootSync'.name = ops[i].request.name]_vars

\* createSync has run to its end and the page tracks the created RootSync
C9_Witness ==
    /\ mounted
    /\ last.kind = "createSync"
    /\ last.outcome = "ok"
    /\ last.calls = CreateSyncCalls
    /\ last.request.secretRef = <<"repo", "-", "pkg", "-", "v1", "-sync">>
    /\ rootSync = last.response

\* C10: a pending poll timer is the one of the RootSync tracked, set to 1
\* second if that resource has no status and to 5 seconds if it has one;
\* when a poll returns on the mounted page the timer is set again from the
\* resource returned.
C10_DelayFollowsStatus ==
    /\ [](timer # NoTimer =>
             /\ IsObject(rootSync)
             /\ timer.name = rootSync.name
             /\ timer.seconds = IF rootSync.status = NoStatus THEN 1 ELSE 5)
    /\ [][\A i \in 1..Len(pollFetches) : \A status \in ReportedOrNoStatus :
             (mounted /\ PollReturns(i, status)) =>
                 /\ rootSync' = RootSyncOf(pollFetches[i].name, status)
                 /\ timer' # NoTimer
                 /\ timer'.seconds = IF status = NoStatus THEN 1 ELSE 5]_vars

\* a poll is in flight while a newer resource with a status is tracked, and
\* the next poll is set 5 seconds ahead
C10_Witness ==
    /\ mounted
    /\ IsObject(rootSync) /\ rootSync.status = "Synced"
    /\ timer # NoTimer /\ timer.seconds = 5
    /\ pollFetches = <<>>
    /\ last.kind = "createSync" /\ last.outcome = "ok"
    /\ last.response.status = NoStatus

C12_SeverityOfBanner ==
    LET banner == SyncStatusBanner
    IN  "SyncStatus" \in Range(Options) =>
            /\ banner.tag = "Alert"
            /\ syncStatus # Undefined =>
                   /\ banner.text = syncStatus.state
                   /\ syncStatus.state \in {"Error", "Stalled"} =>
                          banner.severity = "error"
                   /\ syncStatus.state \in {"Reconciling", "Pending"} =>
                          banner.severity = "info"
                   /\ syncStatus.state = "Synced" => banner.severity = "success"
                   /\ syncStatus.state \notin SyncStatusState =>
                          banner.severity = "error"
            /\ syncStatus = Undefined =>
                   /\ banner.text = "No Status"
                   /\ banner.severity \notin {"error", "info", "success"}

\* the banner of a status outside the five known states
C12_Witness ==
    /\ "SyncStatus" \in Range(Options)
    /\ syncStatus # Undefined
    /\ syncStatus.state = "Unclassified"
    /\ SyncStatusBanner.severity = "error"

\* C13: at most one poll timer is pending and at most one getRootSync poll
\* fetch is outstanding at any time; a pending timer is the one of the
\* RootSync tracked and none is pending after the unmount, so no timer
\* fires for a target that is no longer tracked.
C13_OneTimerOneFetch ==
    /\ Len(pollFetches) <= 1
    /\ (timer # NoTimer =>
            mounted /\ IsObject(rootSync) /\ timer.name = rootSync.name)

\* the poll of this fetch has been cancelled: the page has unmounted, or the
\* RootSync tracked is no longer the target the fetch was issued for
PollCancelled(fetch) ==
    \/ ~mounted
    \/ ~IsObject(rootSync)
    \/ rootSync.name # fetch.name

\* C14: the response of a poll fetch whose poll has been cancelled (unmount,
\* or rootSync replaced by another target or reset to null or undefined) is
\* not acted upon: rootSync and syncStatus stay as they are and no timer is
\* set.
C14_CancelledPollIgnored ==
    [][\A i \in 1..Len(pollFetches) : \A status \in ReportedOrNoStatus :
          (PollCancelled(pollFetches[i]) /\ PollReturns(i, status)) =>
              /\ rootSync' = rootSync
              /\ syncStatus' = syncStatus
              /\ timer' = timer]_vars

\* the three state cells loadPackageRevision sets
LoadedCells == <<repositorySummary, packageRevision, resourcesMap>>

\* C15: the initial load is all or nothing.  The three fetches are issued
\* together; when one of them is rejected the page goes to the load-error
\* state, shows the error alone, and none of repositorySummary,
\* packageRevision and resourcesMap is updated from that load, neither by
\* the failure nor by a fetch of the same load that returns later; while a
\* fetch of a load is still awaited the load updates none of them.
C15_LoadAllOrNothing ==
    /\ [](loadState = "error" => Options = <<>> /\ ~Rendered /\ ~load.active)
    /\ [](load.active => loadState = "loading" \/ ~mounted)
    /\ [][\A which \in {"repo", "pkg", "res"} :
             /\ (mounted /\ FetchFails(which)) =>
                    /\ loadState' = "error"
                    /\ LoadedCells' = LoadedCells
                    /\ ~load'.active
             /\ (FetchReturns(which) /\ load'.active) =>
                    LoadedCells' = LoadedCells]_vars

\* a fetch of the first load has been rejected: the page shows the error and
\* holds none of the three values
C15_Witness ==
    /\ mounted
    /\ loadState = "error"
    /\ ~load.active
    /\ repositorySummary = Undefined
    /\ packageRevision = Undefined
    /\ resourcesMap = 0

\* the revision held is Published and its repository is a deployment repository
PublishedInDeploymentRepository ==
    /\ IsObject(packageRevision) /\ packageRevision.lifecycle = PUBLISHED
    /\ IsObject(repositorySummary) /\ isDeploymentRepository(repositorySummary)

\* C16: the sync status poller is active only while the revision held is
\* Published and its repository is a deployment repository: otherwise no
\* poll timer is pending and no getRootSync poll is issued.
C16_PollerOnlyPublishedDeployment ==
    /\ [](timer # NoTimer => PublishedInDeploymentRepository)
    /\ [][TimerFires => PublishedInDeploymentRepository]_vars

\* both values the lookup effect needs are loaded
BothLoaded == IsObject(packageRevision) /\ IsObject(repositorySummary)

\* C17: rootSync is undefined until repositorySummary and packageRevision
\* are both loaded; listRootSyncs is called only for a Published revision
\* and its response makes rootSync the matching RootSync, or null when none
\* matches; for a revision that is not Published rootSync is undefined and
\* listRootSyncs is not called.
C17_LookupOnlyWhenPublished ==
    /\ [](~BothLoaded => rootSync = Undefined /\ listCalls = <<>>)
    /\ [](BothLoaded /\ packageRevision.lifecycle # PUBLISHED =>
             rootSync = Undefined /\ listCalls = <<>>)
    /\ [][Len(listCalls') > Len(listCalls) =>
             BothLoaded' /\ packageRevision'.lifecycle = PUBLISHED]_vars
    /\ [][\A i \in 1..Len(listCalls) :
             /\ (mounted /\ ListReturns(i, Null)) => rootSync' = Null
             /\ \A name \in RootSyncNames, status \in ReportedOrNoStatus :
                   (mounted /\ ListReturns(i, RootSyncOf(name, status))) =>
                       rootSync' = RootSyncOf(name, status)]_vars

\* a revision approved on the page: the lookup that followed found no match
C17_Witness ==
    /\ mounted
    /\ last.kind = "approvePackage" /\ last.outcome = "ok"
    /\ packageRevision.lifecycle = PUBLISHED
    /\ listCalls = <<>>
    /\ rootSync = Null

\* the lifecycle changes the page may request: <<from, to>>
LifecycleRequests ==
    {<<DRAFT, PROPOSED>>, <<PROPOSED, DRAFT>>, <<PROPOSED, PUBLISHED>>}

\* a step of createSync or of the poller
CreateSyncOrPollStep ==
    \/ createSync
    \/ TimerFires
    \/ PollResponse
    \/ \E i \in 1..Len(ops) :
          /\ ops[i].kind = "createSync"
          /\ \/ GetSecretReturns(i)
             \/ CreateSecretReturns(i)
             \/ \E status \in ReportedOrNoStatus : CreateRootSyncReturns(i, status)
             \/ OpFails(i)

\* C18: the page requests no lifecycle change but Draft to Proposed,
\* Proposed to Draft and Proposed to Published, each only while the revision
\* it holds has the lifecycle the change starts from; for a Published
\* revision it requests none; createSync and the poller leave the revision
\* held as it is.
C18_LifecycleRequests ==
    /\ [](\A i \in 1..Len(ops) :
             ops[i].kind \in Transitions =>
                 <<ops[i].pkg.lifecycle, ops[i].request.lifecycle>>
                     \in LifecycleRequests)
    /\ [][(Len(ops') > Len(ops) /\ ops'[Len(ops')].kind \in Transitions) =>
             /\ Rendered
             /\ packageRevision.lifecycle # PUBLISHED
             /\ <<packageRevision.lifecycle, ops'[Len(ops')].request.lifecycle>>
                    \in LifecycleRequests]_vars
    /\ [][CreateSyncOrPollStep => packageRevision' = packageRevision]_vars

\* a revision taken from Draft to Published on the page: no control that
\* changes the lifecycle is left
C18_Witness ==
    /\ Rendered /\ mode = VIEW
    /\ packageRevision.lifecycle = PUBLISHED
    /\ packageRevision.resourceVersion = 2
    /\ last.kind = "approvePackage" /\ last.outcome = "ok"
    /\ last.pkg.lifecycle = PROPOSED
    /\ Range(Options) \cap {"Propose", "MoveToDraft", "Approve"} = {}

\* createSync has returned on the mounted page and the RootSync created has
\* been stored
CreateSyncAdopted ==
    /\ mounted
    /\ last.kind = "createSync"
    /\ last.outcome = "ok"

\* C19: createRootSync succeeds at most once; once createSync has stored the
\* RootSync created, rootSync is never null again and Create Sync is not
\* offered again.
C19_CreatedSyncStays ==
    /\ [](CreateSyncAdopted =>
             /\ rootSync # Null
             /\ "CreateSync" \notin Range(Options))
    /\ [][\A i \in 1..Len(ops) : \A status \in ReportedOrNoStatus :
             CreateRootSyncReturns(i, status) => ~CreateSyncAdopted]_vars

\* C20: getRoleBindingStructuredMetadata returns one entry per subject, in
\* the order of the subjects: keyed 'Role Binding' for a single subject and
\* 'Role Binding i' (i from 1) for the i-th of several, so that no two keys
\* are the same; each entry is the pair '<roleRef.kind>: <roleRef.name>',
\* '<subject.kind>: <subject.name>'; no subject gives the empty map.
C20_OneEntryPerSubject ==
    IsObject(returnedMetadata) =>
        LET metadata == returnedMetadata.entries
            subjects == roleBinding.subjects
            n == Len(subjects)
            roleRef == roleBinding.roleRef
        IN  /\ Len(metadata) = n
            /\ n = 0 => metadata = <<>>
            /\ n = 1 => metadata[1].name = <<"Role Binding">>
            /\ n > 1 => \A i \in 1..n :
                   metadata[i].name = <<"Role Binding ">> \o numberToString(i)
            /\ \A i, j \in 1..n :
                   i # j => metadata[i].name # metadata[j].name
            /\ \A i \in 1..n :
                   metadata[i].value =
                       << <<roleRef.kind, ": ", roleRef.name>>,
                          <<subjects[i].kind, ": ", subjects[i].name>> >>

\* the metadata of a role binding that names the same subject twice among
\* three has been returned
C20_Witness ==
    /\ IsObject(returnedMetadata)
    /\ Len(roleBinding.subjects) = 3
    /\ roleBinding.subjects[1] = roleBinding.subjects[3]
    /\ Len(returnedMetadata.entries) = 3
    /\ returnedMetadata.entries[3].name = <<"Role Binding ", "3">>

====
